---- MODULE Spec2Model ----
(***************************************************************************)
(* Model of homework.py: a polling bot that asks the grading API for the   *)
(* status of a homework every RETRY_PERIOD seconds and relays changes to   *)
(* a Telegram chat.  The state is that of main(): the credentials read at  *)
(* import time, the locals timestamp and last_message, and the position in *)
(* the while-loop.  Python values are modelled as follows:                 *)
(*   - None / str from os.getenv: <<>> for None, <<s>> for the string s;   *)
(*   - an exception: [type |-> class name, msg |-> its single argument];   *)
(*   - a JSON value: [t |-> python type name, v |-> content]; a dict is a  *)
(*     function from its keys;                                             *)
(*   - the result of a call: Return(v) or Raise(exception).                *)
(* The Russian string literals of the source are rendered in ASCII         *)
(* English; every literal keeps its place in the formatted text.           *)
(***************************************************************************)
EXTENDS Integers, Sequences, FiniteSets, TLC

VARIABLES
    pc,            \* position in main(): see PcValues
    creds,         \* PRACTICUM_TOKEN, TELEGRAM_TOKEN, TELEGRAM_CHAT_ID (lines 17-19)
    timestamp,     \* local of main(), the poll cursor (line 132)
    last_message,  \* local of main() (line 133)
    raised,        \* <<>> or <<e>>: exception e is propagating out of main()
    cycle,         \* observation of the most recent pass through the loop body
    chat,          \* observation: the last status sent and the last error notified
    delivered,     \* observation: the last message the chat received
    observing,     \* whether delivered is being recorded
    unit           \* one function applied on its own: its input and its result

vars == <<pc, creds, timestamp, last_message, raised, cycle, chat, delivered,
          observing, unit>>

----------------------------------------------------------------------------
(* Bounds of the model *)

\* clock readings and current_date values range over 1..MaxTime
MaxTime == 2
\* the API returns at most MaxHomeworks records in homeworks
MaxHomeworks == 2

(* Program constants *)

RETRY_PERIOD == 600
HTTP_OK == 200
ENDPOINT == "https://practicum.yandex.ru/api/user_api/homework_statuses/"

HOMEWORK_VERDICTS ==
    [approved  |-> "Work checked: the reviewer liked everything. Hooray!",
     reviewing |-> "Work taken for review by the reviewer.",
     rejected  |-> "Work checked: the reviewer has remarks."]

TokenNames == <<"PRACTICUM_TOKEN", "TELEGRAM_TOKEN", "TELEGRAM_CHAT_ID">>

----------------------------------------------------------------------------
(* Python values *)

None == <<>>
Some(v) == <<v>>

Exc(type, msg) == [type |-> type, msg |-> msg]
Return(v) == [raised |-> FALSE, exc |-> Exc("", ""), val |-> v]
Raise(e) == [raised |-> TRUE, exc |-> e, val |-> None]

\* str(e): KeyError shows the repr of its argument, the others the argument
Str(e) == IF e.type = "KeyError" THEN "'" \o e.msg \o "'" ELSE e.msg

\* ', '.join(names)
RECURSIVE Join(_)
Join(names) ==
    IF names = <<>> THEN ""
    ELSE IF Len(names) = 1 THEN names[1]
    ELSE names[1] \o ", " \o Join(Tail(names))

\* a test that takes only an unset variable for missing ('value is None')
IsNone(value) == value = None

\* 'not value' for a value read by os.getenv
Falsy(value) == value = None \/ value = Some("")

\* the classes the except clauses of main() tell apart; APIRequestError is
\* defined in exceptions.py as a direct subclass of Exception
APIRequestErrorBases == {"APIRequestError", "Exception"}

Bases(type) ==
    IF type = "APIRequestError" THEN APIRequestErrorBases
    ELSE IF type \in {"RequestException", "ConnectionError", "Timeout"}
    THEN {type, "RequestException", "OSError", "Exception"}
    ELSE {type, "Exception"}

IsInstance(e, classes) == Bases(e.type) \cap classes # {}

----------------------------------------------------------------------------
(* check_tokens, lines 32-46 *)

\* a check that reports the credentials only when none of them is set
MissingTokensIfAll(c) ==
    IF \A i \in 1..Len(TokenNames) : Falsy(c[i]) THEN TokenNames ELSE <<>>

\* [name for name, value in tokens.items() if not value]
MissingTokens(c) ==
    LET idx == SelectSeq([i \in 1..Len(TokenNames) |-> i], LAMBDA i : Falsy(c[i]))
    IN  [k \in 1..Len(idx) |-> TokenNames[idx[k]]]

check_tokens(c) ==
    LET missing_tokens == MissingTokens(c)
    IN  IF missing_tokens # <<>>
        THEN Raise(Exc("EnvironmentError",
                 "Missing required environment variables: " \o Join(missing_tokens)))
        ELSE Return(None)

----------------------------------------------------------------------------
(* What the two external services may answer *)

Times == 1..MaxTime

\* the literal {"from_date": <timestamp>} of the log and error texts
Params(ts) == "{\"from_date\": " \o ToString(ts) \o "}"

\* JSON values
JDict(d) == [t |-> "dict", v |-> d]
JList(l) == [t |-> "list", v |-> l]
\* a string, a number or null: only its type matters to the program
JScalar(type) == [t |-> type, v |-> <<>>]

\* the homework records the loop is fed: two known statuses, an unknown
\* one, and a record without status
HomeworkRecords ==
    { [homework_name |-> "hw1", status |-> s] :
        s \in {"approved", "rejected", "resubmitted"} }
    \cup {[homework_name |-> "hw1"]}

HomeworkLists ==
    UNION { [1..n -> HomeworkRecords] : n \in 0..MaxHomeworks }

\* a decoded body: not a dict; a dict without homeworks; a dict whose
\* homeworks is not a list; a dict with a list, with or without current_date
Payloads ==
    {JList(<<>>)}
    \cup { JDict([k \in K |-> IF k = "homeworks" THEN hw ELSE d]) :
             K \in SUBSET {"homeworks", "current_date"},
             hw \in {JDict(<<>>)} \cup {JList(l) : l \in HomeworkLists},
             d \in Times }

\* what requests.get does: it raises, or it returns a response
HttpOutcomes ==
    {[kind |-> "raise", exc |-> Exc("ConnectionError", "connection refused"),
      status_code |-> 0, json |-> Raise(Exc("", ""))]}
    \cup {[kind |-> "response", exc |-> Exc("", ""), status_code |-> 500,
           json |-> Raise(Exc("", ""))]}
    \cup {[kind |-> "response", exc |-> Exc("", ""), status_code |-> HTTP_OK,
           json |-> Raise(Exc("JSONDecodeError", "Expecting value"))]}
    \cup {[kind |-> "response", exc |-> Exc("", ""), status_code |-> HTTP_OK,
           json |-> Return(p)] : p \in Payloads}

\* what bot.send_message does: it delivers, or it raises
SendOutcomes ==
    {Return(None),
     Raise(Exc("ApiTelegramException", "Bad Request: chat not found")),
     Raise(Exc("RequestException", "read timed out")),
     Raise(Exc("RuntimeError", "bot stopped"))}

----------------------------------------------------------------------------
(* get_api_answer, lines 56-85 *)

\* a fetcher that lets the exception of requests.get through as it is
get_api_answer_reraises(ts, http) ==
    IF http.kind = "raise"
    THEN Raise(http.exc)
    ELSE IF http.status_code # HTTP_OK
    THEN Raise(Exc("APIRequestError",
             "Endpoint unavailable. Response code: " \o ToString(http.status_code)
             \o ". URL: " \o ENDPOINT \o ", parameters: " \o Params(ts)))
    ELSE IF http.json.raised
    THEN Raise(Exc("ValueError",
             "Failed to convert the response to JSON. Endpoint: " \o ENDPOINT
             \o ", parameters: " \o Params(ts) \o ", error: " \o Str(http.json.exc)))
    ELSE Return(http.json.val)

get_api_answer(ts, http) ==
    IF http.kind = "raise"
    THEN Raise(Exc("APIRequestError",
             "API request failed. Endpoint: " \o ENDPOINT \o ", parameters: "
             \o Params(ts) \o ". Error: " \o Str(http.exc)))
    ELSE IF http.status_code # HTTP_OK
    THEN Raise(Exc("APIRequestError",
             "Endpoint unavailable. Response code: " \o ToString(http.status_code)
             \o ". URL: " \o ENDPOINT \o ", parameters: " \o Params(ts)))
    ELSE IF http.json.raised
    THEN Raise(Exc("ValueError",
             "Failed to convert the response to JSON. Endpoint: " \o ENDPOINT
             \o ", parameters: " \o Params(ts) \o ", error: " \o Str(http.json.exc)))
    ELSE Return(http.json.val)

(* check_response, lines 88-106 *)

\* a validator that also requires the key current_date
check_response_strict(response) ==
    IF response.t # "dict"
    THEN Raise(Exc("TypeError",
             "API response is not a dict, got type: " \o response.t))
    ELSE IF "homeworks" \notin DOMAIN response.v
    THEN Raise(Exc("KeyError", "Key \"homeworks\" is missing in the API response"))
    ELSE IF "current_date" \notin DOMAIN response.v
    THEN Raise(Exc("KeyError", "Key \"current_date\" is missing in the API response"))
    ELSE IF response.v["homeworks"].t # "list"
    THEN Raise(Exc("TypeError",
             "Type of \"homeworks\" is not a list, got type: "
             \o response.v["homeworks"].t))
    ELSE Return(response.v["homeworks"].v)

check_response(response) ==
    IF response.t # "dict"
    THEN Raise(Exc("TypeError",
             "API response is not a dict, got type: " \o response.t))
    ELSE IF "homeworks" \notin DOMAIN response.v
    THEN Raise(Exc("KeyError", "Key \"homeworks\" is missing in the API response"))
    ELSE IF response.v["homeworks"].t # "list"
    THEN Raise(Exc("TypeError",
             "Type of \"homeworks\" is not a list, got type: "
             \o response.v["homeworks"].t))
    ELSE Return(response.v["homeworks"].v)

(* parse_status, lines 109-124 *)

\* a formatter that reports the first missing key only
parse_status_first_missing(homework) ==
    LET missing_keys == SelectSeq(<<"homework_name", "status">>,
                                  LAMBDA key : key \notin DOMAIN homework)
    IN  IF missing_keys # <<>>
        THEN Raise(Exc("KeyError",
                 "Keys are missing in the API response: " \o missing_keys[1]))
        ELSE IF homework["status"] \notin DOMAIN HOMEWORK_VERDICTS
        THEN Raise(Exc("ValueError",
                 "Unknown homework status: " \o homework["status"]))
        ELSE Return("Homework review status changed \"" \o homework["homework_name"]
                    \o "\". " \o HOMEWORK_VERDICTS[homework["status"]])

parse_status(homework) ==
    LET missing_keys == SelectSeq(<<"homework_name", "status">>,
                                  LAMBDA key : key \notin DOMAIN homework)
    IN  IF missing_keys # <<>>
        THEN Raise(Exc("KeyError",
                 "Keys are missing in the API response: " \o Join(missing_keys)))
        ELSE IF homework["status"] \notin DOMAIN HOMEWORK_VERDICTS
        THEN Raise(Exc("ValueError",
                 "Unknown homework status: " \o homework["status"]))
        ELSE Return("Homework review status changed \"" \o homework["homework_name"]
                    \o "\". " \o HOMEWORK_VERDICTS[homework["status"]])

(* send_message, lines 49-53: it raises whatever bot.send_message raises *)

send_message(message, outcome) ==
    IF outcome.raised THEN Raise(outcome.exc) ELSE Return(None)

----------------------------------------------------------------------------
(* main, lines 127-165 *)

\* dict.get(key, default)
Get(d, key, default) == IF key \in DOMAIN d THEN d[key] ELSE default

\* a with-block that suppresses nothing
SuppressNothing(classes, result) == result

\* with suppress(classes): the block's exception is dropped if it is one of them
Suppress(classes, result) ==
    IF result.raised /\ IsInstance(result.exc, classes) THEN Return(None) ELSE result

\* a comparison that always decides to send
DiffersAlways(message, last) == TRUE

\* lines 149 and 160: the comparison that decides whether to send
Differs(message, last) == message # last

\* a first except clause that names ApiTelegramException only
DeliveryErrorsTelegramOnly == {"ApiTelegramException"}

\* the classes of the first except clause, line 154
DeliveryErrors == {"ApiTelegramException", "RequestException"}

\* one send_message call as the chat sees it: what was sent, as a status or
\* as an error message, and how the call ended ("ok" or the exception's class)
Call(kind, message, result) ==
    [kind |-> kind, message |-> message,
     result |-> IF result.raised THEN result.exc.type ELSE "ok"]

\* the current_date a decoded payload carries, if it is a dict that has one
CurrentDate(payload) ==
    IF payload.t = "dict" /\ "current_date" \in DOMAIN payload.v
    THEN Some(payload.v["current_date"]) ELSE None

\* a try block that sends a new message without remembering it (no line 151)
TryBlockForgets(ts, last, http, s1) ==
    LET response  == get_api_answer(ts, http)
        homeworks == check_response(response.val)
        message   == parse_status(homeworks.val[1])
        sent      == send_message(message.val, s1)
        start     == [exc |-> None, stage |-> "fetch", timestamp |-> ts,
                      last_message |-> last, calls |-> <<>>,
                      current_date |-> None, message |-> None]
        fetched   == [start EXCEPT !.current_date = CurrentDate(response.val)]
        parsed    == [fetched EXCEPT !.message = Some(message.val)]
    IN  IF response.raised
        THEN [start EXCEPT !.exc = Some(response.exc)]
        ELSE IF homeworks.raised
        THEN [fetched EXCEPT !.stage = "check", !.exc = Some(homeworks.exc)]
        ELSE IF homeworks.val = <<>>
        THEN [fetched EXCEPT !.stage = "no_news"]
        ELSE IF message.raised
        THEN [fetched EXCEPT !.stage = "parse", !.exc = Some(message.exc)]
        ELSE IF Differs(message.val, last) /\ sent.raised
        THEN [parsed EXCEPT !.stage = "send", !.exc = Some(sent.exc),
                            !.calls = <<Call("status", message.val, sent)>>]
        ELSE IF Differs(message.val, last)
        THEN [parsed EXCEPT
                !.stage = "done",
                !.calls = <<Call("status", message.val, sent)>>,
                !.timestamp = Get(response.val.v, "current_date", ts)]
        ELSE [parsed EXCEPT
                !.stage = "done",
                !.timestamp = Get(response.val.v, "current_date", ts)]

\* a try block that takes the last record of the list instead of the first
TryBlockLastRecord(ts, last, http, s1) ==
    LET response  == get_api_answer(ts, http)
        homeworks == check_response(response.val)
        message   == parse_status(homeworks.val[Len(homeworks.val)])
        sent      == send_message(message.val, s1)
        start     == [exc |-> None, stage |-> "fetch", timestamp |-> ts,
                      last_message |-> last, calls |-> <<>>,
                      current_date |-> None, message |-> None]
        fetched   == [start EXCEPT !.current_date = CurrentDate(response.val)]
        parsed    == [fetched EXCEPT !.message = Some(message.val)]
    IN  IF response.raised
        THEN [start EXCEPT !.exc = Some(response.exc)]
        ELSE IF homeworks.raised
        THEN [fetched EXCEPT !.stage = "check", !.exc = Some(homeworks.exc)]
        ELSE IF homeworks.val = <<>>
        THEN [fetched EXCEPT !.stage = "no_news"]
        ELSE IF message.raised
        THEN [fetched EXCEPT !.stage = "parse", !.exc = Some(message.exc)]
        ELSE IF Differs(message.val, last) /\ sent.raised
        THEN [parsed EXCEPT !.stage = "send", !.exc = Some(sent.exc),
                            !.calls = <<Call("status", message.val, sent)>>]
        ELSE IF Differs(message.val, last)
        THEN [parsed EXCEPT
                !.stage = "done",
                !.calls = <<Call("status", message.val, sent)>>,
                !.last_message = message.val,
                !.timestamp = Get(response.val.v, "current_date", ts)]
        ELSE [parsed EXCEPT
                !.stage = "done",
                !.timestamp = Get(response.val.v, "current_date", ts)]

\* The try block, lines 137-153, run with cursor ts and last message last when
\* requests.get does http and bot.send_message (if called) does s1.  stage
\* names the statement the block ended at; exc is the exception it raised.
TryBlock(ts, last, http, s1) ==
    LET response  == get_api_answer(ts, http)
        homeworks == check_response(response.val)
        message   == parse_status(homeworks.val[1])
        sent      == send_message(message.val, s1)
        start     == [exc |-> None, stage |-> "fetch", timestamp |-> ts,
                      last_message |-> last, calls |-> <<>>,
                      current_date |-> None, message |-> None]
        fetched   == [start EXCEPT !.current_date = CurrentDate(response.val)]
        parsed    == [fetched EXCEPT !.message = Some(message.val)]
    IN  IF response.raised
        THEN [start EXCEPT !.exc = Some(response.exc)]
        ELSE IF homeworks.raised
        THEN [fetched EXCEPT !.stage = "check", !.exc = Some(homeworks.exc)]
        ELSE IF homeworks.val = <<>>
        THEN [fetched EXCEPT !.stage = "no_news"]
        ELSE IF message.raised
        THEN [fetched EXCEPT !.stage = "parse", !.exc = Some(message.exc)]
        ELSE IF Differs(message.val, last) /\ sent.raised
        THEN [parsed EXCEPT !.stage = "send", !.exc = Some(sent.exc),
                            !.calls = <<Call("status", message.val, sent)>>]
        ELSE IF Differs(message.val, last)
        THEN [parsed EXCEPT
                !.stage = "done",
                !.calls = <<Call("status", message.val, sent)>>,
                !.last_message = message.val,
                !.timestamp = Get(response.val.v, "current_date", ts)]
        ELSE [parsed EXCEPT
                !.stage = "done",
                !.timestamp = Get(response.val.v, "current_date", ts)]

ErrorMessage(e) == "Program failure: " \o Str(e)

\* The except clause of lines 154-156, entered with the outcome t of the try
\* block and its exception e: the error is logged
DeliveryHandler(t, e) ==
    [exc |-> None, handler |-> "delivery", timestamp |-> t.timestamp,
     last_message |-> t.last_message, calls |-> t.calls,
     error_message |-> Some("Telegram API or network error: " \o Str(e))]

\* a generic except clause that remembers the error message only when its
\* notification was delivered
GenericHandlerOnSuccess(t, e, s2) ==
    LET error_message == ErrorMessage(e)
        sent == Suppress({"Exception"}, send_message(error_message, s2))
        out  == [exc |-> None, handler |-> "generic", timestamp |-> t.timestamp,
                 last_message |-> t.last_message, calls |-> t.calls,
                 error_message |-> Some(error_message)]
    IN  IF ~Differs(t.last_message, error_message) THEN out
        ELSE IF sent.raised
        THEN [out EXCEPT !.calls = Append(t.calls, Call("error", error_message, s2)),
                         !.exc = Some(sent.exc)]
        ELSE IF s2.raised
        THEN [out EXCEPT !.calls = Append(t.calls, Call("error", error_message, s2))]
        ELSE [out EXCEPT !.calls = Append(t.calls, Call("error", error_message, s2)),
                         !.last_message = error_message]

\* a generic except clause that notifies without remembering (no line 163)
GenericHandlerForgets(t, e, s2) ==
    LET error_message == ErrorMessage(e)
        sent == Suppress({"Exception"}, send_message(error_message, s2))
        out  == [exc |-> None, handler |-> "generic", timestamp |-> t.timestamp,
                 last_message |-> t.last_message, calls |-> t.calls,
                 error_message |-> Some(error_message)]
    IN  IF ~Differs(t.last_message, error_message) THEN out
        ELSE IF sent.raised
        THEN [out EXCEPT !.calls = Append(t.calls, Call("error", error_message, s2)),
                         !.exc = Some(sent.exc)]
        ELSE [out EXCEPT !.calls = Append(t.calls, Call("error", error_message, s2))]

\* The except clause of lines 157-163, when bot.send_message (if called)
\* does s2; exc is an exception that suppress() lets through
GenericHandler(t, e, s2) ==
    LET error_message == ErrorMessage(e)
        sent == Suppress({"Exception"}, send_message(error_message, s2))
        out  == [exc |-> None, handler |-> "generic", timestamp |-> t.timestamp,
                 last_message |-> t.last_message, calls |-> t.calls,
                 error_message |-> Some(error_message)]
    IN  IF ~Differs(t.last_message, error_message) THEN out
        ELSE IF sent.raised
        THEN [out EXCEPT !.calls = Append(t.calls, Call("error", error_message, s2)),
                         !.exc = Some(sent.exc)]
        ELSE [out EXCEPT !.calls = Append(t.calls, Call("error", error_message, s2)),
                         !.last_message = error_message]

\* The except clauses, lines 154-163, applied to the outcome t of the try
\* block.  handler names the clause that ran; exc is the exception that
\* leaves the try statement.
Handlers(t, s2) ==
    IF t.exc = None
    THEN [exc |-> None, handler |-> "none", timestamp |-> t.timestamp,
          last_message |-> t.last_message, calls |-> t.calls,
          error_message |-> None]
    ELSE IF IsInstance(t.exc[1], DeliveryErrors) THEN DeliveryHandler(t, t.exc[1])
    ELSE IF IsInstance(t.exc[1], {"Exception"}) THEN GenericHandler(t, t.exc[1], s2)
    ELSE [exc |-> t.exc, handler |-> "none", timestamp |-> t.timestamp,
          last_message |-> t.last_message, calls |-> t.calls,
          error_message |-> None]

----------------------------------------------------------------------------
(* What is observed of a run *)

\* The last status message sent and the last error message notified, after
\* the calls of one pass.  A status message counts once its call returned, an
\* error message once its call was made.
RECURSIVE Seen(_, _)
Seen(c, calls) ==
    IF calls = <<>> THEN c
    ELSE LET call == calls[1]
         IN  Seen([status |-> IF call.kind = "status" /\ call.result = "ok"
                              THEN Some(call.message) ELSE c.status,
                   error  |-> IF call.kind = "error"
                              THEN Some(call.message) ELSE c.error],
                  Tail(calls))

\* the last message the chat received, after the calls of one pass
RECURSIVE Received(_, _)
Received(d, calls) ==
    IF calls = <<>> THEN d
    ELSE Received(IF calls[1].result = "ok" THEN Some(calls[1].message) ELSE d,
                  Tail(calls))

\* cycle before the first pass
NoCycle ==
    [stage |-> "none", handler |-> "none", from_date |-> 0, current_date |-> None,
     message |-> None, error_message |-> None, calls |-> <<>>, slept |-> 0,
     repeat |-> FALSE, resent |-> FALSE]

\* the text a pass produced: the status message, else the error text
Text(c) == IF c.message # None THEN c.message ELSE c.error_message

\* The observation of a pass that began with cursor ts, given the one of the
\* pass before it and what the chat had seen.  repeat: the pass produced the
\* text of the pass before it.  resent: it sent a status message equal to the
\* last status message sent before it.
Observe(before, seen, ts, t, h) ==
    LET new == [stage |-> t.stage, handler |-> h.handler, from_date |-> ts,
                current_date |-> t.current_date, message |-> t.message,
                error_message |-> h.error_message, calls |-> h.calls,
                slept |-> 0, repeat |-> FALSE, resent |-> FALSE]
    IN  [new EXCEPT
           !.repeat = Text(new) # None /\ Text(new) = Text(before),
           !.resent = /\ t.calls # <<>>
                      /\ seen.status = t.message]

----------------------------------------------------------------------------
(* The state machine *)

CredValues == {None, Some(""), Some("token")}

\* unit while main() runs: no function is applied on its own
NoUnit == [fn |-> "none", arg |-> None, done |-> FALSE, result |-> None]

Init ==
    /\ pc = "check_tokens"
    /\ creds \in [1..Len(TokenNames) -> CredValues]
    /\ timestamp = 0
    /\ last_message = ""
    /\ raised = None
    /\ cycle = NoCycle
    /\ chat = [status |-> None, error |-> None]
    /\ delivered = None
    /\ observing = FALSE
    /\ unit = NoUnit

\* the same program, with the deliveries to the chat recorded
InitObserving ==
    /\ pc = "check_tokens"
    /\ creds \in [1..Len(TokenNames) -> CredValues]
    /\ timestamp = 0
    /\ last_message = ""
    /\ raised = None
    /\ cycle = NoCycle
    /\ chat = [status |-> None, error |-> None]
    /\ delivered = None
    /\ observing = TRUE
    /\ unit = NoUnit

\* lines 129-133: check_tokens() raises out of main, or the locals are set
\* (timestamp to the clock's reading)
Start ==
    /\ pc = "check_tokens"
    /\ IF check_tokens(creds).raised
       THEN /\ raised' = Some(check_tokens(creds).exc)
            /\ pc' = "exited"
            /\ UNCHANGED <<timestamp, last_message>>
       ELSE /\ \E now \in Times : timestamp' = now
            /\ last_message' = ""
            /\ pc' = "try"
            /\ UNCHANGED raised
    /\ UNCHANGED <<creds, cycle, chat, delivered, observing, unit>>

\* lines 136-163: the try block and the except clause it ends in, for some
\* answer http of the API and some outcomes s1, s2 of bot.send_message
TryBody ==
    /\ pc = "try"
    /\ \E t \in {TryBlock(timestamp, last_message, http, s1) :
                   http \in HttpOutcomes, s1 \in SendOutcomes} :
       \E h \in {Handlers(t, s2) : s2 \in SendOutcomes} :
            /\ timestamp' = h.timestamp
            /\ last_message' = h.last_message
            /\ raised' = h.exc
            /\ pc' = IF t.stage = "no_news" THEN "sleep142" ELSE "finally"
            /\ cycle' = Observe(cycle, chat, timestamp, t, h)
            /\ chat' = Seen(chat, h.calls)
            /\ delivered' = IF observing THEN Received(delivered, h.calls)
                            ELSE delivered
    /\ UNCHANGED <<creds, observing, unit>>

\* line 142: time.sleep(RETRY_PERIOD) before continue; the finally clause follows
SleepNoNews ==
    /\ pc = "sleep142"
    /\ cycle' = [cycle EXCEPT !.slept = @ + RETRY_PERIOD]
    /\ pc' = "finally"
    /\ UNCHANGED <<creds, timestamp, last_message, raised, chat, delivered,
                   observing, unit>>

\* lines 164-165: time.sleep(RETRY_PERIOD), then the next pass, or the
\* pending exception leaves main
SleepFinally ==
    /\ pc = "finally"
    /\ cycle' = [cycle EXCEPT !.slept = @ + RETRY_PERIOD]
    /\ pc' = IF raised = None THEN "try" ELSE "exited"
    /\ UNCHANGED <<creds, timestamp, last_message, raised, chat, delivered,
                   observing, unit>>

Next == Start \/ TryBody \/ SleepNoNews \/ SleepFinally

Spec == Init /\ [][Next]_vars

DeliverySpec == InitObserving /\ [][Next]_vars

----------------------------------------------------------------------------
(* The functions applied on their own *)

\* decoded bodies of every shape: not a dict (a list, a string, a number,
\* null); a dict with any of the keys homeworks, current_date, code, whose
\* homeworks is a list of records, a dict, a string or null
UnitPayloads ==
    {JList(<<>>), JScalar("str"), JScalar("int"), JScalar("NoneType")}
    \cup { JDict([k \in K |-> IF k = "homeworks" THEN hw
                              ELSE IF k = "current_date" THEN d ELSE "not_authenticated"]) :
             K \in SUBSET {"homeworks", "current_date", "code"},
             hw \in {JDict(<<>>), JScalar("str"), JScalar("NoneType")}
                    \cup {JList(l) : l \in HomeworkLists},
             d \in Times }

\* homework records with any of the keys homework_name, status, id
UnitRecords ==
    { [k \in K |-> IF k = "homework_name" THEN name
                   ELSE IF k = "status" THEN status ELSE "7"] :
        K \in SUBSET {"homework_name", "status", "id"},
        name \in {"hw1", "hw2"},
        status \in {"approved", "reviewing", "rejected", "resubmitted", ""} }

\* what requests.get does, with more failures and status codes
UnitHttpOutcomes ==
    HttpOutcomes
    \cup {[kind |-> "raise", exc |-> Exc("Timeout", "read timed out"),
           status_code |-> 0, json |-> Raise(Exc("", ""))]}
    \cup {[kind |-> "response", exc |-> Exc("", ""), status_code |-> code,
           json |-> j] :
             code \in {201, 204, 301, 401, 404, 503},
             j \in {Raise(Exc("JSONDecodeError", "Expecting value")),
                    Return(JDict([k \in {"homeworks"} |-> JList(<<>>)]))}}

\* the values last_message may have when a pass begins: the initial one, a
\* status message, an error message
UnitLastMessages ==
    {"",
     parse_status([homework_name |-> "hw1", status |-> "approved"]).val,
     ErrorMessage(check_response(JList(<<>>)).exc),
     ErrorMessage(Exc("APIRequestError",
         "Endpoint unavailable. Response code: 500. URL: " \o ENDPOINT
         \o ", parameters: " \o Params(1)))}

UnitInit ==
    /\ pc = "unit"
    /\ creds = [i \in 1..Len(TokenNames) |-> Some("token")]
    /\ timestamp = 0
    /\ last_message = ""
    /\ raised = None
    /\ cycle = NoCycle
    /\ chat = [status |-> None, error |-> None]
    /\ delivered = None
    /\ observing = FALSE
    /\ \/ \E ts \in Times, http \in UnitHttpOutcomes :
             unit = [fn |-> "get_api_answer", arg |-> [timestamp |-> ts, http |-> http],
                     done |-> FALSE, result |-> None]
       \/ \E p \in UnitPayloads :
             unit = [fn |-> "check_response", arg |-> p, done |-> FALSE,
                     result |-> None]
       \/ \E hw \in UnitRecords :
             unit = [fn |-> "parse_status", arg |-> hw, done |-> FALSE,
                     result |-> None]
       \/ \E ts \in Times, last \in UnitLastMessages, http \in HttpOutcomes,
              s1 \in SendOutcomes, s2 \in SendOutcomes :
             unit = [fn |-> "pass",
                     arg |-> [timestamp |-> ts, last_message |-> last, http |-> http,
                              s1 |-> s1, s2 |-> s2],
                     done |-> FALSE, result |-> None]

UnitFrame ==
    UNCHANGED <<pc, creds, timestamp, last_message, raised, cycle, chat, delivered,
                observing>>

RunGetApiAnswer ==
    /\ unit.fn = "get_api_answer" /\ ~unit.done
    /\ unit' = [unit EXCEPT !.done = TRUE,
                            !.result = get_api_answer(unit.arg.timestamp, unit.arg.http)]
    /\ UnitFrame

RunCheckResponse ==
    /\ unit.fn = "check_response" /\ ~unit.done
    /\ unit' = [unit EXCEPT !.done = TRUE, !.result = check_response(unit.arg)]
    /\ UnitFrame

RunParseStatus ==
    /\ unit.fn = "parse_status" /\ ~unit.done
    /\ unit' = [unit EXCEPT !.done = TRUE, !.result = parse_status(unit.arg)]
    /\ UnitFrame

\* one pass through the try statement of main, lines 137-163: try is the
\* outcome of the try block, end the one of the except clause it ended in
RunPass ==
    /\ unit.fn = "pass" /\ ~unit.done
    /\ \E t \in {TryBlock(unit.arg.timestamp, unit.arg.last_message,
                           unit.arg.http, unit.arg.s1)} :
          unit' = [unit EXCEPT !.done = TRUE,
                               !.result = [try |-> t, end |-> Handlers(t, unit.arg.s2)]]
    /\ UnitFrame

UnitNext == RunGetApiAnswer \/ RunCheckResponse \/ RunParseStatus \/ RunPass

UnitSpec == UnitInit /\ [][UnitNext]_vars

----------------------------------------------------------------------------
(* Properties *)

\* a step that is one pass through the try statement: cycle is the
\* observation of the pass before it, cycle' the one of this pass
TryStep == pc = "try" /\ pc' # "try"

\* the send_message calls of a pass that carry a status / an error message
StatusCalls(c) == SelectSeq(c.calls, LAMBDA call : call.kind = "status")
ErrorCalls(c) == SelectSeq(c.calls, LAMBDA call : call.kind = "error")

\* the pass called send_message with its status message and the call raised
\* a messaging-delivery error
FailedDelivery(c) ==
    /\ StatusCalls(c) # <<>>
    /\ StatusCalls(c)[1].result \in {"ApiTelegramException", "RequestException"}

\* some credential is missing or empty
AnyMissing == \E i \in DOMAIN creds : creds[i] = None \/ creds[i] = Some("")

\* C1: after a pass whose validated response has an empty homeworks list,
\* the next get_api_answer call is made with from_date equal to that
\* response's current_date, or with the unchanged cursor if it has none.
C1_NoNewsAdvancesCursor ==
    [][TryStep /\ cycle.stage = "no_news"
       => cycle'.from_date = IF cycle.current_date # None
                             THEN cycle.current_date[1]
                             ELSE cycle.from_date]_vars

\* C2: no message delivered to the chat equals the message delivered
\* immediately before it.
C2_NoAdjacentDuplicates ==
    [][TryStep
       => \A i \in 1..Len(cycle'.calls) :
            cycle'.calls[i].result = "ok"
            => Some(cycle'.calls[i].message)
               # Received(delivered, SubSeq(cycle'.calls, 1, i - 1))]_vars

\* C3: when the next fetch is about to be issued, exactly one sleep of
\* RETRY_PERIOD has been executed since the previous one.
C3_OneSleepPerPass ==
    pc = "try" /\ cycle.stage # "none" => cycle.slept = RETRY_PERIOD

\* C4: no step decreases the poll cursor.
C4_CursorNeverDecreases == [][timestamp' >= timestamp]_vars

\* C5 (as claimed): a status message is suppressed exactly when it equals
\* the last status message sent, and an error message exactly when it
\* equals the last error message notified.
C5_DedupPerCategory ==
    [][TryStep
       => /\ cycle'.message # None
             => (StatusCalls(cycle') = <<>> <=> cycle'.message = chat.status)
          /\ cycle'.handler = "generic"
             => (ErrorCalls(cycle') = <<>> <=> cycle'.error_message = chat.error)]_vars

\* C5 (amended): there is one last_message for both categories: a status
\* message is suppressed exactly when it equals last_message, and so is an
\* error message, whatever category last_message came from.
C5_DedupAgainstLastMessage ==
    [][TryStep
       => /\ cycle'.message # None
             => (StatusCalls(cycle') = <<>> <=> cycle'.message = Some(last_message))
          /\ cycle'.handler = "generic"
             => (ErrorCalls(cycle') = <<>>
                 <=> cycle'.error_message = Some(last_message))]_vars

\* C5 witness: a status message equal to the last status message sent has
\* been sent again (an error notification came in between).
C5_ResentAfterError == cycle.stage = "done" /\ cycle.resent

\* C6 (as claimed): of two consecutive passes whose fetch fails with the
\* same text, the first being the first of the run of failures, the first
\* calls send_message once and the second not at all.
C6_ExactlyOnceAcrossTwo ==
    [][/\ TryStep
       /\ cycle.stage = "fetch" /\ ~cycle.repeat
       /\ cycle'.stage = "fetch" /\ cycle'.error_message = cycle.error_message
       => Len(cycle.calls) = 1 /\ cycle'.calls = <<>>]_vars

\* C6 (amended): a pass whose fetch fails and reaches the generic handler
\* calls send_message once, with the error message, if that differs from
\* last_message and not at all otherwise; so of two consecutive passes whose
\* fetch fails with the same text the second makes no call and the first at
\* most one.
C6_RepeatedFailureSuppressed ==
    [][TryStep /\ cycle'.stage = "fetch"
       => /\ cycle'.handler = "generic"
             => /\ Len(cycle'.calls) =
                     IF cycle'.error_message # Some(last_message) THEN 1 ELSE 0
                /\ \A i \in 1..Len(cycle'.calls) :
                      /\ cycle'.calls[i].kind = "error"
                      /\ Some(cycle'.calls[i].message) = cycle'.error_message
          /\ cycle.stage = "fetch" /\ cycle.error_message = cycle'.error_message
             => cycle'.calls = <<>> /\ Len(cycle.calls) <= 1]_vars

\* C6 witness: the fetch failed with the text of the pass before it and no
\* send_message call was made.
C6_SecondFailureSuppressed ==
    cycle.stage = "fetch" /\ cycle.repeat /\ cycle.calls = <<>>

\* C7 (as claimed): of two consecutive passes that produce the same status
\* message, the first being the first to produce it, the first calls
\* send_message once and the second not at all.
C7_ExactlyOnceAcrossTwo ==
    [][/\ TryStep
       /\ cycle.message # None /\ ~cycle.repeat
       /\ cycle'.message = cycle.message
       => Len(StatusCalls(cycle)) = 1 /\ cycle'.calls = <<>>]_vars

\* C7 (amended): when two consecutive passes produce the same status message
\* and the first one ran to its end (its send_message call, if it made one,
\* returned), the second makes no send_message call and the first at most one.
C7_SuppressedAfterDelivery ==
    [][TryStep /\ cycle.stage = "done" /\ cycle'.message = cycle.message
       => cycle'.calls = <<>> /\ Len(cycle.calls) <= 1]_vars

\* C7 witness: a pass produced the status message of the pass before it and
\* made no send_message call.
C7_SecondPassSilent ==
    cycle.stage = "done" /\ cycle.repeat /\ cycle.calls = <<>>

\* C8: main stops only at the startup check; no pass lets an exception out
\* of the try statement, and the sleep of the finally clause is followed by
\* the next fetch.
C8_LoopSurvivesEveryError ==
    /\ [](pc = "exited" => cycle = NoCycle /\ AnyMissing)
    /\ [](cycle.stage # "none" => raised = None)
    /\ [][pc = "finally" => pc' = "try"]_vars

\* C8 witness: the error notification itself failed, and the loop is at its
\* next fetch.
C8_FailedErrorNotification ==
    /\ pc = "try"
    /\ ErrorCalls(cycle) # <<>>
    /\ ErrorCalls(cycle)[1].result # "ok"

\* C9: with a credential missing or empty, main makes no get_api_answer and
\* no send_message call: it is at the startup check or has left with its error.
C9_NoPollingWithoutCredentials ==
    AnyMissing
    => /\ cycle = NoCycle
       /\ chat = [status |-> None, error |-> None]
       /\ pc \in {"check_tokens", "exited"}
       /\ pc = "exited" => raised # None /\ raised[1].type = "EnvironmentError"

\* C9 witness: main has stopped at the startup check with one credential
\* empty and the others set.
C9_AbortedAtStartup ==
    /\ pc = "exited"
    /\ Cardinality({i \in DOMAIN creds : creds[i] = Some("token")}) = 2
    /\ \E i \in DOMAIN creds : creds[i] = Some("")

\* C10: a pass whose status send_message call raises a messaging-delivery
\* error makes no other call and leaves last_message and the cursor as they
\* were; and if the next pass produces the same status message, it calls
\* send_message with it.
C10_DeliveryFailureOnlyLogged ==
    [][TryStep
       => /\ FailedDelivery(cycle')
             => /\ Len(cycle'.calls) = 1
                /\ last_message' = last_message
                /\ timestamp' = timestamp
                /\ raised' = None
          /\ FailedDelivery(cycle) /\ cycle'.message = cycle.message
             => /\ StatusCalls(cycle') # <<>>
                /\ Some(StatusCalls(cycle')[1].message) = cycle.message]_vars

\* C10 witness: the status send_message call failed with a delivery error in
\* two consecutive passes that produced the same message.
C10_RetriedAfterFailure == FailedDelivery(cycle) /\ cycle.repeat

\* C11: a pass sets the cursor to the current_date of its response when the
\* fetch succeeded, the response carries one and nothing failed; in every
\* other pass (fetch, validation, formatting or delivery failure, or no
\* current_date) the cursor is unchanged.
C11_CursorFollowsCurrentDate ==
    [][TryStep
       => timestamp' = IF /\ cycle'.stage \in {"no_news", "done"}
                          /\ cycle'.current_date # None
                       THEN cycle'.current_date[1]
                       ELSE timestamp]_vars

\* the text that lists the credentials of the set S, in the order of tokens
Listing(S) == Join(SelectSeq(TokenNames, LAMBDA name : name \in S))

\* the credentials that are missing or empty
MissingNames ==
    {TokenNames[i] : i \in {j \in DOMAIN creds : creds[j] = None \/ creds[j] = Some("")}}

\* C12: check_tokens returns for every triple of non-empty credentials; for
\* every triple with a missing or empty one it raises EnvironmentError whose
\* message lists exactly the missing credentials (the listings of different
\* sets of credentials are different texts).
C12_NamesExactlyTheMissing ==
    /\ pc # "check_tokens"
       => IF MissingNames = {}
          THEN pc # "exited" /\ raised = None
          ELSE /\ pc = "exited"
               /\ raised = Some(Exc("EnvironmentError",
                             "Missing required environment variables: "
                             \o Listing(MissingNames)))
    /\ \A S, T \in SUBSET {TokenNames[i] : i \in DOMAIN TokenNames} :
          Listing(S) = Listing(T) => S = T

\* C12 witness: check_tokens has raised for an unset PRACTICUM_TOKEN and an
\* empty TELEGRAM_CHAT_ID, naming these two and not TELEGRAM_TOKEN.
C12_TwoOfThreeNamed ==
    /\ pc = "exited"
    /\ creds = <<None, Some("token"), Some("")>>
    /\ raised[1].msg = "Missing required environment variables: "
                       \o "PRACTICUM_TOKEN, TELEGRAM_CHAT_ID"

\* C13: check_response raises TypeError for a payload that is not a dict;
\* else KeyError for a dict without the key homeworks; else TypeError for a
\* homeworks value that is not a list; else it returns the homeworks list as
\* it is, whatever its elements and with or without current_date.
C13_ClassifiesPayloads ==
    unit.fn = "check_response" /\ unit.done
    => IF unit.arg.t # "dict"
       THEN unit.result.raised /\ unit.result.exc.type = "TypeError"
       ELSE IF "homeworks" \notin DOMAIN unit.arg.v
       THEN unit.result.raised /\ unit.result.exc.type = "KeyError"
       ELSE IF unit.arg.v["homeworks"].t # "list"
       THEN unit.result.raised /\ unit.result.exc.type = "TypeError"
       ELSE /\ ~unit.result.raised
            /\ unit.result.val = unit.arg.v["homeworks"].v

\* C13 witness: check_response has returned a list of two records, one of
\* them without status, from a payload without current_date.
C13_ReturnedUnvalidatedList ==
    /\ unit.fn = "check_response" /\ unit.done
    /\ DOMAIN unit.arg.v = {"homeworks"}
    /\ unit.result.val = <<[homework_name |-> "hw1"],
                           [homework_name |-> "hw1", status |-> "resubmitted"]>>

\* C14: parse_status raises KeyError naming every missing one of
\* homework_name and status, before it looks at the status value; else
\* ValueError naming the status when it is not approved, reviewing or
\* rejected; else it returns the sentence made of homework_name and the
\* verdict of the status, and the three verdicts are different texts.
C14_FormatsOrNamesTheFault ==
    /\ unit.fn = "parse_status" /\ unit.done
       => IF {"homework_name", "status"} \cap DOMAIN unit.arg = {}
          THEN unit.result = Raise(Exc("KeyError",
                   "Keys are missing in the API response: homework_name, status"))
          ELSE IF "homework_name" \notin DOMAIN unit.arg
          THEN unit.result = Raise(Exc("KeyError",
                   "Keys are missing in the API response: homework_name"))
          ELSE IF "status" \notin DOMAIN unit.arg
          THEN unit.result = Raise(Exc("KeyError",
                   "Keys are missing in the API response: status"))
          ELSE IF unit.arg.status \notin {"approved", "reviewing", "rejected"}
          THEN unit.result = Raise(Exc("ValueError",
                   "Unknown homework status: " \o unit.arg.status))
          ELSE unit.result = Return("Homework review status changed \""
                   \o unit.arg.homework_name \o "\". "
                   \o HOMEWORK_VERDICTS[unit.arg.status])
    /\ \A a, b \in {"approved", "reviewing", "rejected"} :
          HOMEWORK_VERDICTS[a] = HOMEWORK_VERDICTS[b] => a = b

\* C14 witness: parse_status has raised KeyError naming both fields for a
\* record that has neither.
C14_BothFieldsNamed ==
    /\ unit.fn = "parse_status" /\ unit.done
    /\ DOMAIN unit.arg = {"id"}
    /\ unit.result.exc = Exc("KeyError",
           "Keys are missing in the API response: homework_name, status")

\* the fetch fails: requests.get raises, or the status code is not 200, or
\* the body cannot be decoded
FetchFails(http) ==
    http.kind = "raise" \/ http.status_code # 200 \/ http.json.raised

\* C15: get_api_answer raises APIRequestError when requests.get raises and
\* when the status code is not 200 (the message then carries the code),
\* ValueError when the body of a 200 response cannot be decoded, and returns
\* the decoded payload as it is otherwise; a pass whose fetch fails in one of
\* these ways ends in the generic handler, which calls send_message once
\* with the error message unless that equals last_message.
C15_FetchOutcomesClassified ==
    /\ unit.fn = "get_api_answer" /\ unit.done
       => IF unit.arg.http.kind = "raise"
          THEN unit.result.raised /\ unit.result.exc.type = "APIRequestError"
          ELSE IF unit.arg.http.status_code # 200
          THEN unit.result = Raise(Exc("APIRequestError",
                   "Endpoint unavailable. Response code: "
                   \o ToString(unit.arg.http.status_code)
                   \o ". URL: " \o ENDPOINT \o ", parameters: "
                   \o Params(unit.arg.timestamp)))
          ELSE IF unit.arg.http.json.raised
          THEN unit.result.raised /\ unit.result.exc.type = "ValueError"
          ELSE unit.result = Return(unit.arg.http.json.val)
    /\ unit.fn = "pass" /\ unit.done /\ FetchFails(unit.arg.http)
       => /\ unit.result.try.stage = "fetch"
          /\ unit.result.try.exc # None
          /\ unit.result.try.exc[1].type \in {"APIRequestError", "ValueError"}
          /\ unit.result.end.handler = "generic"
          /\ unit.result.end.exc = None
          /\ unit.result.end.calls =
                IF "Program failure: " \o unit.result.try.exc[1].msg
                   = unit.arg.last_message
                THEN <<>>
                ELSE <<[kind |-> "error",
                        message |-> "Program failure: " \o unit.result.try.exc[1].msg,
                        result |-> IF unit.arg.s2.raised THEN unit.arg.s2.exc.type
                                   ELSE "ok"]>>

\* C15 witness: a pass whose fetch got status code 500 has ended in the
\* generic handler with one error notification.
C15_Status500Notified ==
    /\ unit.fn = "pass" /\ unit.done
    /\ unit.arg.http.status_code = 500
    /\ unit.result.end.handler = "generic"
    /\ Len(unit.result.end.calls) = 1

\* the homeworks list of the response of a pass, if the fetch succeeded and
\* the response is valid; the empty list otherwise
PassRecords ==
    IF /\ unit.fn = "pass"
       /\ ~FetchFails(unit.arg.http)
       /\ unit.arg.http.json.val.t = "dict"
       /\ "homeworks" \in DOMAIN unit.arg.http.json.val.v
       /\ unit.arg.http.json.val.v["homeworks"].t = "list"
    THEN unit.arg.http.json.val.v["homeworks"].v
    ELSE <<>>

\* the message of the i-th record, and the message sent or compared before it
RecordMessage(i) == parse_status(PassRecords[i])
MessageBefore(i) ==
    IF i = 1 THEN unit.arg.last_message ELSE RecordMessage(i - 1).val

\* C16 (as claimed): when a pass has advanced the cursor, every record of
\* its response has been formatted by parse_status and, if its message
\* differs from the message before it, sent.
C16_EveryRecordNotified ==
    unit.fn = "pass" /\ unit.done /\ unit.result.try.stage = "done"
    => \A i \in 1..Len(PassRecords) :
          /\ ~RecordMessage(i).raised
          /\ RecordMessage(i).val # MessageBefore(i)
             => \E j \in 1..Len(unit.result.end.calls) :
                   /\ unit.result.end.calls[j].kind = "status"
                   /\ unit.result.end.calls[j].message = RecordMessage(i).val

\* C16 (amended): a pass whose response has k >= 1 records formats the
\* first record only: it ends in the error of parse_status for that record,
\* or it produces that record's message, sends it if it differs from
\* last_message (no other status message is sent) and, the send having
\* returned, advances the cursor; the other records change nothing.
C16_FirstRecordOnly ==
    unit.fn = "pass" /\ unit.done /\ Len(PassRecords) >= 1
    => IF RecordMessage(1).raised
       THEN /\ unit.result.try.stage = "parse"
            /\ unit.result.try.exc = Some(RecordMessage(1).exc)
            /\ unit.result.try.calls = <<>>
            /\ unit.result.end.timestamp = unit.arg.timestamp
       ELSE /\ unit.result.try.message = Some(RecordMessage(1).val)
            /\ unit.result.try.calls =
                  IF RecordMessage(1).val = unit.arg.last_message THEN <<>>
                  ELSE <<[kind |-> "status", message |-> RecordMessage(1).val,
                          result |-> IF unit.arg.s1.raised
                                     THEN unit.arg.s1.exc.type ELSE "ok"]>>
            /\ unit.result.try.stage =
                  IF unit.result.try.calls # <<>> /\ unit.arg.s1.raised
                  THEN "send" ELSE "done"
            /\ unit.result.end.timestamp =
                  IF unit.result.try.stage = "done"
                     /\ unit.result.try.current_date # None
                  THEN unit.result.try.current_date[1]
                  ELSE unit.arg.timestamp

\* C16 witness: a pass has advanced the cursor after sending the message of
\* the first of two records with different statuses, and nothing else.
C16_SecondRecordDropped ==
    /\ unit.fn = "pass" /\ unit.done
    /\ Len(PassRecords) = 2
    /\ unit.result.try.stage = "done"
    /\ ~RecordMessage(2).raised
    /\ RecordMessage(2).val # RecordMessage(1).val
    /\ Len(unit.result.end.calls) = 1
    /\ unit.result.end.timestamp # unit.arg.timestamp

\* C17: last_message is the empty string as long as no status message has
\* been sent successfully and no error notification attempted; after that it
\* is the last status message whose send_message call returned or the last
\* error message whose notification was attempted, whichever came later: a
\* pass sets it to its error message if it attempted the notification
\* (delivered or not), else to its status message if the call returned, and
\* leaves it alone otherwise.
C17_LastMessageTracksAttempts ==
    /\ [](/\ last_message = "" <=> chat = [status |-> None, error |-> None]
          /\ last_message # "" => Some(last_message) \in {chat.status, chat.error})
    /\ [][TryStep
          => last_message' =
               IF ErrorCalls(cycle') # <<>>
               THEN ErrorCalls(cycle')[1].message
               ELSE IF StatusCalls(cycle') # <<>>
                       /\ StatusCalls(cycle')[1].result = "ok"
               THEN StatusCalls(cycle')[1].message
               ELSE last_message]_vars

\* C17 witness: last_message is an error message whose notification was
\* attempted and not delivered, while the last status message was delivered.
C17_UndeliveredErrorRemembered ==
    /\ ErrorCalls(cycle) # <<>>
    /\ ErrorCalls(cycle)[1].result # "ok"
    /\ last_message = ErrorCalls(cycle)[1].message
    /\ chat.status # None

\* every send_message call of the pass returned or raised a messaging or
\* network error
OnlyDeliveryFailures(c) ==
    \A i \in 1..Len(c.calls) :
       c.calls[i].result \in {"ok", "ApiTelegramException", "RequestException"}

\* C18: a pass in which send_message fails, if at all, with
\* ApiTelegramException or RequestException calls it at most once, so never
\* with a status message and an error message both; a pass with an empty
\* homeworks list, and one whose status or error message equals
\* last_message, does not call it.
C18_AtMostOneSendPerPass ==
    [][TryStep /\ OnlyDeliveryFailures(cycle')
       => /\ Len(cycle'.calls) <= 1
          /\ cycle'.stage = "no_news" => cycle'.calls = <<>>
          /\ Text(cycle') = Some(last_message) => cycle'.calls = <<>>]_vars

\* C18 witness: a pass has called send_message once, with its status
\* message, and the call raised a network error.
C18_OneCallDespiteFailure ==
    /\ pc = "finally"
    /\ Len(cycle.calls) = 1
    /\ cycle.calls[1].kind = "status"
    /\ cycle.calls[1].result = "RequestException"
    /\ Some(cycle.calls[1].message) = cycle.message

====
